---- MODULE Spec2Model ----
(***************************************************************************)
(* Hiding erasure-correcting codes (HECC) over GF(256).                    *)
(*                                                                         *)
(* The module models the three layers of the crate:                        *)
(*   gf256.rs          the log/exp tables and mul / div / inv              *)
(*   hecc_core.rs      hecc_encode, hecc_decode, poly_eval,                *)
(*                     lagrange_interpolate, poly_mul                      *)
(*   hecc_pipeline.rs  hecc_shred_bytes, hecc_recover_bytes                *)
(* The functions are pure; each specification below draws their inputs in  *)
(* Init and in its environment actions and applies the functions in its    *)
(* program actions.                                                        *)
(***************************************************************************)
EXTENDS Integers, Sequences, FiniteSets

VARIABLES
    pc,         \* position of the scenario being run
    fa,         \* field scenario: the byte handed to inv
    finv,       \* field scenario: inv(fa)
    fprod,      \* field scenario: mul(fa, finv)
    k, t, n,    \* code parameters in use
    m, r,       \* message vector and randomness vector
    shreds,     \* result of hecc_encode
    shards,     \* the (value, point) list handed to hecc_decode
    result,     \* result of hecc_decode
    m2,         \* hiding scenario: the second message vector
    pts,        \* hiding scenario: the observed points
    viewA,      \* hiding scenario: randomness -> values of m at pts
    viewB,      \* hiding scenario: randomness -> values of m2 at pts
    message,    \* pipeline: the message bytes
    rng,        \* pipeline: the state of the randomness source
    all_shards, \* pipeline: result of hecc_shred_bytes
    kept,       \* pipeline: the shard list handed to hecc_recover_bytes
    edits,      \* pipeline: shards lost so far
    recovered   \* pipeline: result of hecc_recover_bytes

vars == <<pc, fa, finv, fprod, k, t, n, m, r, shreds, shards, result,
          m2, pts, viewA, viewB, message, rng, all_shards, kept, edits,
          recovered>>

fieldVars == <<fa, finv, fprod>>
coreVars == <<k, t, n, m, r, shreds, shards, result>>
hideVars == <<m2, pts, viewA, viewB>>
pipeVars == <<message, rng, all_shards, kept, edits, recovered>>

None == "none"

(***************************************************************************)
(* Bytes and bitwise exclusive or                                           *)
(***************************************************************************)
Byte == 0..255

RECURSIVE BitXor(_, _)
BitXor(a, b) ==
    IF a = 0 THEN b
    ELSE IF b = 0 THEN a
    ELSE ((a + b) % 2) + 2 * BitXor(a \div 2, b \div 2)

\* a ^ b on u8, tabulated once
XorTable == [a \in Byte |-> [b \in Byte |-> BitXor(a, b)]]

(***************************************************************************)
(* gf256.rs                                                                *)
(***************************************************************************)
GF256_SIZE == 256
GF256_ORDER == 255
PRIM_POLY_256 == 285

\* x <<= 1; if x & 0x100 != 0 { x ^= PRIM_POLY_256 }   (x: u16, x < 0x100 before)
gf_double(x) ==
    LET y == (x * 2) % 65536
    IN  IF (y \div 256) % 2 = 1 THEN BitXor(y, PRIM_POLY_256) ELSE y

\* one pass of the first loop of Gf256::default:
\*   exp[i] = x as u8; log[x as usize] = i as u8; x <<= 1; reduce
gf_step(st) ==
    [i   |-> st.i + 1,
     x   |-> gf_double(st.x),
     exp |-> [st.exp EXCEPT ![st.i] = st.x % 256],
     log |-> [st.log EXCEPT ![st.x] = st.i % 256]]

\* at most cnt passes of the loop
RECURSIVE gf_steps(_, _)
gf_steps(st, cnt) ==
    IF cnt = 0 \/ st.i = GF256_ORDER THEN st
    ELSE gf_steps(gf_step(st), cnt - 1)

\* for i in 0..GF256_ORDER, run in chunks of 16 passes
RECURSIVE gf_fill(_)
gf_fill(st) ==
    IF st.i = GF256_ORDER THEN st
    ELSE gf_fill(gf_steps(st, 16))

gf_start ==
    [i   |-> 0,
     x   |-> 1,
     exp |-> [i \in 0..(GF256_ORDER * 2 - 1) |-> 0],
     log |-> [i \in 0..(GF256_SIZE - 1) |-> 0]]

\* mutant: the second half of exp is left zero
Gf256_default_nodup ==
    LET first == gf_fill(gf_start)
    IN  [exp |-> first.exp, log |-> first.log]

\* Gf256::default(): the fill loop, then exp[i] = exp[i - GF256_ORDER]
Gf256_default ==
    LET first == gf_fill(gf_start)
    IN  [exp |-> [i \in 0..(GF256_ORDER * 2 - 1) |->
                    IF i >= GF256_ORDER THEN first.exp[i - GF256_ORDER]
                    ELSE first.exp[i]],
         log |-> first.log]

gf == Gf256_default

gf_add(a, b) == XorTable[a][b]

gf_sub(a, b) == XorTable[a][b]

gf_mul(a, b) ==
    IF a = 0 \/ b = 0 THEN 0
    ELSE gf.exp[gf.log[a] + gf.log[b]]

gf_div(a, b) ==
    IF a = 0 THEN 0
    ELSE IF b = 0 THEN 0
    ELSE LET idx == gf.log[a] - gf.log[b]
         IN  gf.exp[IF idx < 0 THEN idx + GF256_ORDER ELSE idx]

gf_inv(a) ==
    IF a = 0 THEN 0
    ELSE gf.exp[GF256_ORDER - gf.log[a]]

(***************************************************************************)
(* Results: Ok(v) and Err(e)                                               *)
(***************************************************************************)
Ok(v) == [tag |-> "Ok", val |-> v]

Err(e) == [tag |-> e, val |-> <<>>]

(***************************************************************************)
(* hecc_core.rs                                                            *)
(***************************************************************************)
\* the loop of poly_eval, from coefficient j on
RECURSIVE poly_eval_loop(_, _, _, _, _)
poly_eval_loop(coeffs, x, j, y, x_pow) ==
    IF j > Len(coeffs) THEN y
    ELSE poly_eval_loop(coeffs, x, j + 1,
                        IF coeffs[j] # 0
                        THEN XorTable[y][gf_mul(coeffs[j], x_pow)]
                        ELSE y,
                        gf_mul(x_pow, x))

poly_eval(coeffs, x) == poly_eval_loop(coeffs, x, 1, 0, 1)

\* mutant: shard i (counted from 0) is the value at point i, not i + 1
hecc_encode_zero_based(mv, rv, nn) ==
    IF Len(mv) = 0 \/ Len(rv) = 0 \/ nn < Len(mv) + Len(rv) \/ nn > 255
    THEN Err("InvalidParams")
    ELSE Ok([i \in 1..nn |-> poly_eval(mv \o rv, (i - 1) % 256)])

\* hecc_encode: out[i] = poly_eval(m ++ r, (i + 1) as u8) for i in 0..n;
\* the sequence below is indexed from 1, so entry p is the value at point p
hecc_encode(mv, rv, nn) ==
    IF Len(mv) = 0 \/ Len(rv) = 0 \/ nn < Len(mv) + Len(rv) \/ nn > 255
    THEN Err("InvalidParams")
    ELSE Ok([p \in 1..nn |-> poly_eval(mv \o rv, p % 256)])

\* the loops of poly_mul, from (i, j) on; a, b, out are indexed from 1
RECURSIVE poly_mul_loop(_, _, _, _, _)
poly_mul_loop(a, b, i, j, out) ==
    IF i > Len(a) THEN out
    ELSE IF a[i] = 0 \/ j > Len(b) THEN poly_mul_loop(a, b, i + 1, 1, out)
    ELSE IF b[j] = 0 THEN poly_mul_loop(a, b, i, j + 1, out)
    ELSE poly_mul_loop(a, b, i, j + 1,
             [out EXCEPT ![i + j - 1] =
                  XorTable[out[i + j - 1]][gf_mul(a[i], b[j])]])

poly_mul(a, b) ==
    poly_mul_loop(a, b, 1, 1, [i \in 1..(Len(a) + Len(b) - 1) |-> 0])

\* the inner loop of lagrange_interpolate for basis j, from point mm on
RECURSIVE lagrange_basis(_, _, _, _, _)
lagrange_basis(xs, j, mm, acc, degree) ==
    IF mm > degree THEN acc
    ELSE IF mm = j THEN lagrange_basis(xs, j, mm + 1, acc, degree)
    ELSE lagrange_basis(xs, j, mm + 1,
             [denom |-> gf_mul(acc.denom, gf_sub(xs[j], xs[mm])),
              basis |-> poly_mul(acc.basis, <<gf_sub(0, xs[mm]), 1>>)],
             degree)

\* the outer loop of lagrange_interpolate, from basis j on
RECURSIVE lagrange_loop(_, _, _, _, _)
lagrange_loop(xs, ys, j, poly, degree) ==
    IF j > degree THEN poly
    ELSE LET b == lagrange_basis(xs, j, 1, [denom |-> 1, basis |-> <<1>>], degree)
             scale == gf_div(ys[j], b.denom)
         IN  lagrange_loop(xs, ys, j + 1,
                 [i \in 1..Len(poly) |->
                     IF i <= Len(b.basis)
                     THEN XorTable[poly[i]][gf_mul(scale, b.basis[i])]
                     ELSE poly[i]],
                 degree)

lagrange_interpolate(xs, ys, degree) ==
    lagrange_loop(xs, ys, 1, [i \in 1..degree |-> 0], degree)

InvalidIndex(idx) == idx = 0 \/ idx > 255

\* mutant: the upper limit of a point is off by one
RECURSIVE decode_scan_off_by_one(_, _, _, _)
decode_scan_off_by_one(list, i, unique, need) ==
    IF i > Len(list) THEN Ok(unique)
    ELSE IF list[i][2] = 0 \/ list[i][2] > 256 THEN Err("InvalidShardIndex")
    ELSE IF \E u \in 1..Len(unique) : unique[u][2] = list[i][2]
         THEN Err("DuplicateIndex")
    ELSE IF Len(unique) + 1 = need THEN Ok(Append(unique, list[i]))
    ELSE decode_scan_off_by_one(list, i + 1, Append(unique, list[i]), need)

\* mutant: a point is compared with the last accepted point only
RECURSIVE decode_scan_last_only(_, _, _, _)
decode_scan_last_only(list, i, unique, need) ==
    IF i > Len(list) THEN Ok(unique)
    ELSE IF InvalidIndex(list[i][2]) THEN Err("InvalidShardIndex")
    ELSE IF Len(unique) > 0 /\ unique[Len(unique)][2] = list[i][2]
         THEN Err("DuplicateIndex")
    ELSE IF Len(unique) + 1 = need THEN Ok(Append(unique, list[i]))
    ELSE decode_scan_last_only(list, i + 1, Append(unique, list[i]), need)

\* mutant: the scan does not stop at the need-th accepted entry
RECURSIVE decode_scan_no_break(_, _, _, _)
decode_scan_no_break(list, i, unique, need) ==
    IF i > Len(list) THEN Ok(unique)
    ELSE IF InvalidIndex(list[i][2]) THEN Err("InvalidShardIndex")
    ELSE IF \E u \in 1..Len(unique) : unique[u][2] = list[i][2]
         THEN Err("DuplicateIndex")
    ELSE decode_scan_no_break(list, i + 1, Append(unique, list[i]), need)

\* the scan of hecc_decode (for &(v, idx) in shards), from entry i on:
\* Err(e) on the first rejected entry, else Ok(the accepted entries)
RECURSIVE decode_scan(_, _, _, _)
decode_scan(list, i, unique, need) ==
    IF i > Len(list) THEN Ok(unique)
    ELSE IF InvalidIndex(list[i][2]) THEN Err("InvalidShardIndex")
    ELSE IF \E u \in 1..Len(unique) : unique[u][2] = list[i][2]
         THEN Err("DuplicateIndex")
    ELSE IF Len(unique) + 1 = need THEN Ok(Append(unique, list[i]))
    ELSE decode_scan(list, i + 1, Append(unique, list[i]), need)

\* what hecc_decode does with the accepted entries
decode_accepted(unique, kk, tt) ==
    IF Len(unique) < kk + tt THEN Err("NotEnoughShards")
    ELSE LET xs == [i \in 1..Len(unique) |-> unique[i][2] % 256]
             ys == [i \in 1..Len(unique) |-> unique[i][1]]
             coeffs == lagrange_interpolate(xs, ys, kk + tt)
         IN  Ok(<<SubSeq(coeffs, 1, kk), SubSeq(coeffs, kk + 1, kk + tt)>>)

\* mutant: the length of the input is not checked before the scan
hecc_decode_no_length_check(list, kk, tt) ==
    IF kk = 0 \/ tt = 0 THEN Err("InvalidParams")
    ELSE LET sc == decode_scan(list, 1, <<>>, kk + tt)
         IN  IF sc.tag # "Ok" THEN sc
             ELSE decode_accepted(sc.val, kk, tt)

hecc_decode(list, kk, tt) ==
    IF kk = 0 \/ tt = 0 THEN Err("InvalidParams")
    ELSE IF Len(list) < kk + tt THEN Err("NotEnoughShards")
    ELSE LET sc == decode_scan(list, 1, <<>>, kk + tt)
         IN  IF sc.tag # "Ok" THEN sc
             ELSE decode_accepted(sc.val, kk, tt)

(***************************************************************************)
(* hecc_pipeline.rs                                                        *)
(***************************************************************************)
\* HeccParams::validate
validate(params) ==
    IF params.k = 0 \/ params.t = 0 \/ params.n < params.k + params.t
       \/ params.n > 255
    THEN Err("InvalidParams")
    ELSE Ok(<<>>)

\* len > u32::MAX, for len: usize of 64 bits
length_overflows(len) == (len \div 65536) \div 65536 >= 1

\* (len as u32).to_be_bytes()
to_be_bytes(len) ==
    << (len \div 16777216) % 256, (len \div 65536) % 256,
       (len \div 256) % 256, len % 256 >>

\* block.wrapping_add(1) on u32
wrapping_add_1(block) ==
    IF block \div 65536 = 65535 /\ block % 65536 = 65535 THEN 0 ELSE block + 1

\* the randomness source: byte i (from 1) of the stream a seed stands for
RngByte(seed, i) == (seed * i) % 256

\* rng.fill_bytes(&mut r) for r of length len: the bytes and the source after
fill_bytes(g, len) ==
    [bytes |-> [i \in 1..len |-> RngByte(g.seed, g.pos + i)],
     rng   |-> [seed |-> g.seed, pos |-> g.pos + len]]

\* the shards of one block: (block, (i + 1) as u8, encoded[i])
block_shards(block, encoded) ==
    [i \in 1..Len(encoded) |->
        [block |-> block, index |-> i % 256, value |-> encoded[i]]]

\* the while loop of hecc_shred_bytes, from the block at offset on
RECURSIVE shred_loop(_, _, _, _, _, _)
shred_loop(params, payload, block, offset, g, out) ==
    IF offset >= Len(payload) THEN [tag |-> "Ok", val |-> out, rng |-> g]
    ELSE LET end == IF offset + params.k < Len(payload)
                    THEN offset + params.k ELSE Len(payload)
             mv == [i \in 1..params.k |->
                      IF i <= end - offset THEN payload[offset + i] ELSE 0]
             drawn == fill_bytes(g, params.t)
             encoded == hecc_encode(mv, drawn.bytes, params.n)
         IN  IF encoded.tag # "Ok"
             THEN [tag |-> "InvalidParams", val |-> <<>>, rng |-> drawn.rng]
             ELSE shred_loop(params, payload, wrapping_add_1(block), end,
                             drawn.rng, out \o block_shards(block, encoded.val))

\* hecc_shred_bytes: the result, and the randomness source after the call
hecc_shred_bytes(params, msg, g) ==
    IF validate(params).tag # "Ok"
    THEN [tag |-> "InvalidParams", val |-> <<>>, rng |-> g]
    ELSE IF length_overflows(Len(msg))
    THEN [tag |-> "LengthOverflow", val |-> <<>>, rng |-> g]
    ELSE shred_loop(params, to_be_bytes(Len(msg)) \o msg, 0, 0, g, <<>>)

RECURSIVE SortedSeq(_)
SortedSeq(S) ==
    IF S = {} THEN <<>>
    ELSE LET lo == CHOOSE x \in S : \A y \in S : x <= y
         IN  <<lo>> \o SortedSeq(S \ {lo})

\* the block of the first shard of the list, then the blocks of the others
RECURSIVE first_seen(_, _, _)
first_seen(list, i, out) ==
    IF i > Len(list) THEN out
    ELSE IF \E j \in 1..Len(out) : out[j] = list[i].block
         THEN first_seen(list, i + 1, out)
         ELSE first_seen(list, i + 1, Append(out, list[i].block))

\* mutant: the blocks are visited in the order they first appear in the input
block_order_first_seen(list) == first_seen(list, 1, <<>>)

\* the keys of by_block as the BTreeMap iterates them: ascending
block_order(list) == SortedSeq({list[i].block : i \in 1..Len(list)})

\* by_block[block]: the shards of the block, in input order
block_list(list, block) ==
    LET Same(s) == s.block = block
    IN  SelectSeq(list, Same)

\* for shard in list.drain(..): the (value, index) pairs collected, from
\* shard i on
RECURSIVE collect_pairs(_, _, _, _, _)
collect_pairs(list, i, seen, pairs, need) ==
    IF i > Len(list) THEN pairs
    ELSE LET idx == list[i].index
         IN  IF idx = 0 \/ idx > 255 \/ idx \in seen
             THEN collect_pairs(list, i + 1, seen, pairs, need)
             ELSE IF Len(pairs) + 1 = need
             THEN Append(pairs, <<list[i].value, idx>>)
             ELSE collect_pairs(list, i + 1, seen \cup {idx},
                                Append(pairs, <<list[i].value, idx>>), need)

NotEnoughShards(block, have, need) ==
    [tag |-> "NotEnoughShards", val |-> <<>>,
     block |-> block, have |-> have, need |-> need]

\* for (block, list) in by_block, from the b-th block on: the bytes
\* recovered, or the error of the first block that fails
RECURSIVE recover_blocks(_, _, _, _, _)
recover_blocks(params, list, order, b, acc) ==
    IF b > Len(order) THEN Ok(acc)
    ELSE LET need == params.k + params.t
             mine == block_list(list, order[b])
         IN  IF Len(mine) < need
             THEN NotEnoughShards(order[b], Len(mine), need)
             ELSE LET pairs == collect_pairs(mine, 1, {}, <<>>, need)
                  IN  IF Len(pairs) < need
                      THEN NotEnoughShards(order[b], Len(pairs), need)
                      ELSE LET dec == hecc_decode(pairs, params.k, params.t)
                           IN  IF dec.tag # "Ok" THEN Err("InvalidParams")
                               ELSE recover_blocks(params, list, order, b + 1,
                                                   acc \o dec.val[1])

\* the header check and the cut of hecc_recover_bytes, for usize of 64 bits;
\* len = u32::from_be_bytes(bytes[0..4]) is compared in two 16-bit halves
strip_header(bytes) ==
    IF Len(bytes) < 4 THEN Err("InvalidHeader")
    ELSE LET hi == bytes[1] * 256 + bytes[2]
             lo == bytes[3] * 256 + bytes[4]
             room == Len(bytes) - 4
         IN  IF room \div 65536 < hi
                \/ (room \div 65536 = hi /\ room % 65536 < lo)
             THEN Err("InvalidHeader")
             ELSE Ok(SubSeq(bytes, 5, 4 + hi * 65536 + lo))

hecc_recover_bytes(params, list) ==
    IF validate(params).tag # "Ok" THEN Err("InvalidParams")
    ELSE LET blocks == recover_blocks(params, list, block_order(list), 1, <<>>)
         IN  IF blocks.tag # "Ok" THEN blocks
             ELSE strip_header(blocks.val)

(***************************************************************************)
(* Field scenario: inv, then mul by the inverse                            *)
(***************************************************************************)
\* the variables of the scenarios that are not running
FieldIdle == fa = None /\ finv = None /\ fprod = None

CoreIdle ==
    /\ k = None /\ t = None /\ n = None /\ m = None /\ r = None
    /\ shreds = None /\ shards = None /\ result = None

HideIdle == m2 = None /\ pts = None /\ viewA = None /\ viewB = None

PipeIdle ==
    /\ message = None /\ rng = None /\ all_shards = None /\ kept = None
    /\ edits = None /\ recovered = None

FieldInit ==
    /\ pc = "field"
    /\ fa \in Byte
    /\ finv = None /\ fprod = None
    /\ CoreIdle /\ HideIdle /\ PipeIdle

FieldInv ==
    /\ pc = "field"
    /\ finv' = gf_inv(fa)
    /\ pc' = "inverted"
    /\ UNCHANGED <<fa, fprod, coreVars, hideVars, pipeVars>>

FieldMul ==
    /\ pc = "inverted"
    /\ fprod' = gf_mul(fa, finv)
    /\ pc' = "multiplied"
    /\ UNCHANGED <<fa, finv, coreVars, hideVars, pipeVars>>

FieldNext == FieldInv \/ FieldMul

SpecField == FieldInit /\ [][FieldNext]_vars

\* C8: for every nonzero byte a (1..255), mul(a, inv(a)) = 1 with the tables
\* built by Gf256::default().
C8_FieldInverse ==
    (pc = "multiplied" /\ fa # 0) => fprod = 1

\* the case a = 1, whose inverse is read from the second half of exp
C8_Witness ==
    pc = "multiplied" /\ fa = 1 /\ finv = 1 /\ fprod = 1

(***************************************************************************)
(* Core scenario: encode, keep k + t shards at distinct points, decode     *)
(***************************************************************************)
MaxK == 2
MaxT == 2
MaxN == 4

\* the bytes the message vector and the randomness vector are drawn from
MsgBytes == {0, 1, 167}

RndBytes == {0, 200}

\* valid (K, T, N): small N, and the largest N
CoreParams ==
    {p \in (1..MaxK) \X (1..MaxT) \X ((1..MaxN) \cup {255}) :
        p[1] + p[2] <= p[3]}

\* the points shards are kept at: all of 1..N for a small N, a sample for N = 255
PickPoints(nn) == IF nn <= MaxN THEN 1..nn ELSE {1, 128, 254, 255}

CoreInit ==
    /\ pc = "core"
    /\ \E p \in CoreParams : k = p[1] /\ t = p[2] /\ n = p[3]
    /\ m \in [1..k -> MsgBytes]
    /\ r \in [1..t -> RndBytes]
    /\ shreds = None /\ shards = <<>> /\ result = None
    /\ m2 = None /\ pts = None /\ viewA = None /\ viewB = None
    /\ FieldIdle /\ PipeIdle

CoreEncode ==
    /\ pc = "core"
    /\ shreds' = hecc_encode(m, r, n)
    /\ pc' = "encoded"
    /\ UNCHANGED <<k, t, n, m, r, shards, result, fieldVars, hideVars, pipeVars>>

\* keep the shard at point p, after those already kept
CorePick(p) ==
    /\ pc = "encoded"
    /\ shreds.tag = "Ok"
    /\ Len(shards) < k + t
    /\ \A i \in 1..Len(shards) : shards[i][2] # p
    /\ shards' = Append(shards, <<shreds.val[p], p>>)
    /\ UNCHANGED <<pc, k, t, n, m, r, shreds, result, fieldVars, hideVars, pipeVars>>

CoreDecode ==
    /\ pc = "encoded"
    /\ Len(shards) = k + t
    /\ result' = hecc_decode(shards, k, t)
    /\ pc' = "decoded"
    /\ UNCHANGED <<k, t, n, m, r, shreds, shards, fieldVars, hideVars, pipeVars>>

CoreNext ==
    \/ CoreEncode
    \/ \E p \in PickPoints(n) : CorePick(p)
    \/ CoreDecode

SpecCore == CoreInit /\ [][CoreNext]_vars

\* C2: decoding the shards of hecc_encode(m, r, N) at any K + T distinct
\* points of 1..N, in any order, returns Ok((m, r)).
C2_CoreRoundTrip ==
    pc = "decoded" => result = Ok(<<m, r>>)

\* a decode of shards listed out of order, with N > K + T and a nonzero message
C2_Witness ==
    /\ pc = "decoded"
    /\ result.tag = "Ok"
    /\ n > k + t
    /\ k = 2 /\ t = 2
    /\ shards[1][2] > shards[2][2]
    /\ shards[1][2] = 255
    /\ m[1] = 167 /\ r[2] = 200

(***************************************************************************)
(* Decode scenario: hecc_decode on an arbitrary (value, point) list        *)
(***************************************************************************)
MaxShards == 4

\* the entries a list is made of: values at valid points, and entries whose
\* point is 0 or above 255
DecodeEntries ==
    ({1, 200} \X {1, 2, 255}) \cup {<<1, 0>>, <<200, 256>>}

DecodeInit ==
    /\ pc = "listing"
    /\ shards = <<>>
    /\ k = None /\ t = None /\ n = None /\ m = None /\ r = None
    /\ shreds = None /\ result = None
    /\ FieldIdle /\ HideIdle /\ PipeIdle

DecodePush(e) ==
    /\ pc = "listing"
    /\ Len(shards) < MaxShards
    /\ shards' = Append(shards, e)
    /\ UNCHANGED <<pc, k, t, n, m, r, shreds, result, fieldVars, hideVars, pipeVars>>

DecodeCall(kk, tt) ==
    /\ pc = "listing"
    /\ k' = kk /\ t' = tt
    /\ result' = hecc_decode(shards, kk, tt)
    /\ pc' = "decoded"
    /\ UNCHANGED <<n, m, r, shreds, shards, fieldVars, hideVars, pipeVars>>

DecodeNext ==
    \/ \E e \in DecodeEntries : DecodePush(e)
    \/ \E kk \in 1..MaxK, tt \in 1..MaxT : DecodeCall(kk, tt)

SpecDecode == DecodeInit /\ [][DecodeNext]_vars

Point(i) == shards[i][2]

\* the number of entries with pairwise distinct valid points the list holds
DistinctValid == Cardinality({Point(i) : i \in 1..Len(shards)} \cap (1..255))

\* entries 1..j have pairwise distinct points
PairwiseDistinct(j) ==
    \A i1, i2 \in 1..j : i1 < i2 => Point(i1) # Point(i2)

\* C5 as stated: a list with fewer than k + t entries with pairwise distinct
\* valid points always fails with NotEnoughShards.
C5_Original ==
    (pc = "decoded" /\ DistinctValid < k + t)
        => result.tag = "NotEnoughShards"

\* C5 amended: a list with fewer than k + t entries with pairwise distinct
\* valid points always fails; with NotEnoughShards when the list has fewer
\* than k + t entries, with InvalidShardIndex or DuplicateIndex otherwise.
C5_Insufficient ==
    (pc = "decoded" /\ DistinctValid < k + t)
        => IF Len(shards) < k + t
           THEN result.tag = "NotEnoughShards"
           ELSE result.tag \in {"InvalidShardIndex", "DuplicateIndex"}

\* a list of two entries with valid distinct points, decoded with k + t = 3
C5_Witness ==
    /\ pc = "decoded"
    /\ k = 2 /\ t = 1
    /\ Len(shards) = 2
    /\ DistinctValid = 2
    /\ result.tag = "NotEnoughShards"

\* C6 as stated: a list in which the same point occurs twice within the
\* first k + t scanned entries fails with DuplicateIndex.
C6_Original ==
    (/\ pc = "decoded"
     /\ \E j \in 1..Len(shards) : j <= k + t /\ ~PairwiseDistinct(j))
        => result.tag = "DuplicateIndex"

\* C6 amended: a list of at least k + t entries in which the same point
\* occurs twice within the first k + t entries, every entry up to the second
\* occurrence having a point in 1..255, fails with DuplicateIndex.
C6_Duplicate ==
    (/\ pc = "decoded"
     /\ Len(shards) >= k + t
     /\ \E j \in 1..(k + t) :
            /\ ~PairwiseDistinct(j)
            /\ \A i \in 1..j : ~InvalidIndex(Point(i)))
        => result.tag = "DuplicateIndex"

\* a repeat that is not adjacent: points 1, 2, 1
C6_Witness ==
    /\ pc = "decoded"
    /\ k + t = 3
    /\ Len(shards) >= 3
    /\ Point(1) = 1 /\ Point(2) = 2 /\ Point(3) = 1
    /\ result.tag = "DuplicateIndex"

\* C7 as stated: a list that contains an entry whose point is 0 or greater
\* than 255 fails with InvalidShardIndex.
C7_Original ==
    (/\ pc = "decoded"
     /\ \E i \in 1..Len(shards) : InvalidIndex(Point(i)))
        => result.tag = "InvalidShardIndex"

\* C7 amended: a list of at least k + t entries that has, within its first
\* k + t entries, an entry whose point is 0 or greater than 255 and that is
\* preceded only by entries with pairwise distinct points, fails with
\* InvalidShardIndex.
C7_InvalidIndex ==
    (/\ pc = "decoded"
     /\ Len(shards) >= k + t
     /\ \E j \in 1..(k + t) :
            /\ InvalidIndex(Point(j))
            /\ PairwiseDistinct(j - 1))
        => result.tag = "InvalidShardIndex"

\* the point 256, last of the first k + t entries
C7_Witness ==
    /\ pc = "decoded"
    /\ k + t = 3
    /\ Len(shards) >= 3
    /\ Point(1) = 255 /\ Point(2) = 1 /\ Point(3) = 256
    /\ result.tag = "InvalidShardIndex"

\* C9: when the first k + t entries have pairwise distinct points in 1..255,
\* hecc_decode succeeds and returns the result of decoding those entries
\* alone, whatever follows them.
C9_StopEarly ==
    (/\ pc = "decoded"
     /\ Len(shards) >= k + t
     /\ PairwiseDistinct(k + t)
     /\ \A i \in 1..(k + t) : ~InvalidIndex(Point(i)))
        => /\ result.tag = "Ok"
           /\ result = hecc_decode(SubSeq(shards, 1, k + t), k, t)

\* two accepted entries followed by a repeated point and by the point 0
C9_Witness ==
    /\ pc = "decoded"
    /\ k = 1 /\ t = 1
    /\ Len(shards) = 4
    /\ Point(1) = 2 /\ Point(2) = 255 /\ Point(3) = 2 /\ Point(4) = 0
    /\ result.tag = "Ok"

(***************************************************************************)
(* Pipeline scenario: shred, lose and reorder shards, recover              *)
(***************************************************************************)
MaxMsgLen == 2
MaxDrops == 2

PipeBytes == {0, 201}

\* valid (K, T, N): N = K + T and N > K + T, K below and above the header size
PipeParams ==
    {[k |-> 1, t |-> 1, n |-> 2], [k |-> 2, t |-> 1, n |-> 4],
     [k |-> 5, t |-> 2, n |-> 7]}

RngSeeds == {0, 77}

Messages == UNION {[1..len -> PipeBytes] : len \in 0..MaxMsgLen}

\* the orders the shards arrive in
Orders == {"sent", "reversed", "by_index", "by_index_reversed"}

Reversed(list) == [i \in 1..Len(list) |-> list[Len(list) + 1 - i]]

RECURSIVE ByIndex(_, _, _)
ByIndex(list, i, last) ==
    IF i > last THEN <<>>
    ELSE LET Same(s) == s.index = i
         IN  SelectSeq(list, Same) \o ByIndex(list, i + 1, last)

Reorder(list, o, last) ==
    CASE o = "sent" -> list
      [] o = "reversed" -> Reversed(list)
      [] o = "by_index" -> ByIndex(list, 1, last)
      [] o = "by_index_reversed" -> Reversed(ByIndex(list, 1, last))

params == [k |-> k, t |-> t, n |-> n]

PipeInit ==
    /\ pc = "pipe"
    /\ \E p \in PipeParams : k = p.k /\ t = p.t /\ n = p.n
    /\ message \in Messages
    /\ \E seed \in RngSeeds : rng = [seed |-> seed, pos |-> 0]
    /\ all_shards = None /\ kept = <<>> /\ edits = 0 /\ recovered = None
    /\ m = None /\ r = None /\ shreds = None /\ shards = None /\ result = None
    /\ FieldIdle /\ HideIdle

PipeShred ==
    /\ pc = "pipe"
    /\ LET out == hecc_shred_bytes(params, message, rng)
       IN  /\ all_shards' = [tag |-> out.tag, val |-> out.val]
           /\ rng' = out.rng
    /\ pc' = "shredded"
    /\ UNCHANGED <<k, t, n, message, kept, edits, recovered,
                   m, r, shreds, shards, result, fieldVars, hideVars>>

\* every shard arrives, in order o
PipeArrive(o) ==
    /\ pc = "shredded"
    /\ all_shards.tag = "Ok"
    /\ kept' = Reorder(all_shards.val, o, n)
    /\ pc' = "received"
    /\ UNCHANGED <<k, t, n, message, rng, all_shards, edits, recovered,
                   m, r, shreds, shards, result, fieldVars, hideVars>>

\* the i-th shard received is lost
PipeDrop(i) ==
    /\ pc = "received"
    /\ edits < MaxDrops
    /\ kept' = SubSeq(kept, 1, i - 1) \o SubSeq(kept, i + 1, Len(kept))
    /\ edits' = edits + 1
    /\ UNCHANGED <<pc, k, t, n, message, rng, all_shards, recovered,
                   m, r, shreds, shards, result, fieldVars, hideVars>>

PipeRecover ==
    /\ pc = "received"
    /\ recovered' = hecc_recover_bytes(params, kept)
    /\ pc' = "recovered"
    /\ UNCHANGED <<k, t, n, message, rng, all_shards, kept, edits,
                   m, r, shreds, shards, result, fieldVars, hideVars>>

PipeNext ==
    \/ PipeShred
    \/ \E o \in Orders : PipeArrive(o)
    \/ \E i \in 1..Len(kept) : PipeDrop(i)
    \/ PipeRecover

SpecPipe == PipeInit /\ [][PipeNext]_vars

\* the blocks hecc_shred_bytes produced
SentBlocks == {all_shards.val[i].block : i \in 1..Len(all_shards.val)}

\* the number of shards of block b in the list handed to hecc_recover_bytes
KeptOf(b) == Cardinality({i \in 1..Len(kept) : kept[i].block = b})

C4_PipelineInsufficient ==
    \A b \in (IF pc = "recovered" THEN SentBlocks ELSE {}) :
        (/\ KeptOf(b) < k + t
         /\ \A c \in SentBlocks \ {b} : KeptOf(c) >= k + t)
            => (recovered.tag = "NotEnoughShards" /\ recovered.block = b)

\* C10 as stated: from any sub-list of the shards, hecc_recover_bytes returns
\* an error or exactly the message.
C10_RecoverySound ==
    (pc = "recovered" /\ recovered.tag = "Ok") => recovered.val = message

(***************************************************************************)
(* Hiding scenario: what a holder of the shards at some points sees of two *)
(* messages, as the randomness vector ranges over all its values           *)
(***************************************************************************)
\* valid (K, T, N) with T = 1: the randomness ranges over the 256 vectors of
\* length 1
HideParams ==
    {[k |-> 1, t |-> 1, n |-> 2], [k |-> 1, t |-> 1, n |-> 3],
     [k |-> 2, t |-> 1, n |-> 3], [k |-> 2, t |-> 1, n |-> 4]}

\* randomness vector -> the shard values of hecc_encode(mv, rv, nn) at P
View(mv, tt, nn, P) ==
    [rv \in [1..tt -> Byte] |-> [p \in P |-> hecc_encode(mv, rv, nn).val[p]]]

HideInit ==
    /\ pc = "hide"
    /\ \E p \in HideParams : k = p.k /\ t = p.t /\ n = p.n
    /\ m \in [1..k -> MsgBytes]
    /\ m2 \in [1..k -> MsgBytes]
    /\ pts = {} /\ viewA = None /\ viewB = None
    /\ r = None /\ shreds = None /\ shards = None /\ result = None
    /\ FieldIdle /\ PipeIdle

\* the shards at the points P are observed, for m and for m2
HideObserve(P) ==
    /\ pc = "hide"
    /\ Cardinality(P) < k + t
    /\ pts' = P
    /\ viewA' = View(m, t, n, P)
    /\ viewB' = View(m2, t, n, P)
    /\ pc' = "observed"
    /\ UNCHANGED <<k, t, n, m, r, shreds, shards, result, m2, fieldVars, pipeVars>>

HideNext == \E P \in SUBSET (1..n) : HideObserve(P)

SpecHide == HideInit /\ [][HideNext]_vars

Image(f) == {f[x] : x \in DOMAIN f}

Count(f, v) == Cardinality({x \in DOMAIN f : f[x] = v})

\* f and g take the same values with the same multiplicities
SameCollection(f, g) ==
    /\ Image(f) = Image(g)
    /\ \/ /\ Cardinality(Image(f)) = Cardinality(DOMAIN f)
          /\ Cardinality(Image(g)) = Cardinality(DOMAIN g)
       \/ \A v \in Image(f) : Count(f, v) = Count(g, v)

====
